---- MODULE Spec2Model ----
(***************************************************************************)
(* Model of terraform-provider-looker:                                     *)
(*   - providerConfigure (internal/provider), the provider's configuration *)
(*     callback, as a step machine over the calls it makes on the          *)
(*     lookergo client;                                                    *)
(*   - ModelSetsResourceOp (pkg/lookergo/modelSets.go), the model-set      *)
(*     resource operations.                                                *)
(***************************************************************************)
EXTENDS Naturals, Sequences, FiniteSets, TLC

VARIABLES
    pc,          \* position inside providerConfigure
    d,           \* schema.ResourceData: base_url, client_id, client_secret
    version,     \* the version string handed to New
    userAgent,   \* local userAgent
    client,      \* the object behind the pointer returned by lookergo.NewClient
    session,     \* local session (result of client.Sessions.Get)
    config,      \* local config
    diags,       \* local diags
    ret,         \* what providerConfigure returned: [config, diags]
    log,         \* tflog output
    stdout,      \* standard output
    trace,       \* the client calls and checks made so far, with their outcome
    msCall,      \* the ModelSetsResourceOp method invoked last, with its arguments
    msCalls,     \* calls that invocation made on the generic layer
    doListOut,   \* what doList handed back to that invocation
    msRet        \* outcome of that invocation

cfgVars == <<pc, d, version, userAgent, client, session, config, diags, ret, log, stdout, trace>>
msVars  == <<msCall, msCalls, doListOut, msRet>>
vars    == <<pc, d, version, userAgent, client, session, config, diags, ret, log, stdout, trace,
             msCall, msCalls, doListOut, msRet>>

\* ---------------------------------------------------------------- bounds
NumCreds == 2
NumErrs == 2
NumModelSets == 3
MaxLen == 2

\* ---------------------------------------------------------------- values
NULL == "nil"

Workspace == {"WorkspaceProduction", "WorkspaceDev"}
WorkspaceProduction == "WorkspaceProduction"
WorkspaceDev == "WorkspaceDev"

modelSetsBasePath == "4.0/model_sets"

\* the pointer held in the local variable client
PrimaryClient == "client"

BaseUrls == {"https://looker.example/api/", "::bad-url"}
ClientIds == {"id" \o ToString(i) : i \in 1..NumCreds}
ClientSecrets == {"secret" \o ToString(i) : i \in 1..NumCreds}
Versions == {"dev"}
ErrMsgs == {"error" \o ToString(i) : i \in 1..NumErrs}
WorkspaceIds == {"production", "dev", "", "staging"}
DevClients == {"devClient1", "devClient2"}
DevSessions == {[WorkspaceId |-> "dev"], [WorkspaceId |-> "production"]}

UserAgent(name, v) == name \o "/" \o v

Diagnostic(summary, detail) == [Severity |-> "Error", Summary |-> summary, Detail |-> detail]

Config(api, ws) == [Api |-> api, Workspace |-> ws]

\* var config Config: a nil Api and the zero Workspace, which is WorkspaceProduction
ZeroConfig == Config(NULL, WorkspaceProduction)

\* the pair providerConfigure returns: nil or &config, and the diagnostics
NoReturn == [returned |-> FALSE, isNil |-> TRUE, config |-> ZeroConfig, diags |-> <<>>]
ReturnNil(ds) == [returned |-> TRUE, isNil |-> TRUE, config |-> ZeroConfig, diags |-> ds]
ReturnConfig(c) == [returned |-> TRUE, isNil |-> FALSE, config |-> c, diags |-> <<>>]

NoSession == [WorkspaceId |-> NULL]
NoCall == [op |-> "none", id |-> NULL, modelSet |-> NULL]
NoOutcome == [kind |-> "none", entities |-> <<>>, resp |-> NULL, err |-> NULL, value |-> NULL]

NewClient == [BaseURL |-> NULL, ClientId |-> NULL, ClientSecret |-> NULL, UserAgent |-> NULL]

Step(name, err) == [step |-> name, ok |-> (err = NULL)]

\* ---------------------------------------------------------------- providerConfigure
Init ==
    /\ pc = "start"
    /\ d \in [base_url : BaseUrls, client_id : ClientIds, client_secret : ClientSecrets]
    /\ version \in Versions
    /\ userAgent = NULL
    /\ client = NULL
    /\ session = NoSession
    /\ config = ZeroConfig
    /\ diags = <<>>
    /\ ret = NoReturn
    /\ log = <<>>
    /\ stdout = <<>>
    /\ trace = <<>>
    /\ msCall = NoCall
    /\ msCalls = <<>>
    /\ doListOut = NULL
    /\ msRet = NoOutcome

\* lines 102-108: the two debug lines, the user agent, the client
Start ==
    /\ pc = "start"
    /\ log' = log \o << [msg |-> "Configure provider", fields |-> {<<"conninfo", NULL>>, <<"schema", "p.Schema">>}],
                        [msg |-> "Provider config", fields |-> {<<"client_id", d.client_id>>}] >>
    /\ userAgent' = UserAgent("terraform-provider-looker", version)
    /\ client' = NewClient
    /\ pc' = "SetBaseURL"
    /\ UNCHANGED <<d, version, session, config, diags, ret, stdout, trace>>
    /\ UNCHANGED msVars

Fail(summary, detail) ==
    /\ diags' = Append(diags, Diagnostic(summary, detail))
    /\ ret' = ReturnNil(Append(diags, Diagnostic(summary, detail)))
    /\ pc' = "done"

SetBaseURL ==
    /\ pc = "SetBaseURL"
    /\ \E err \in {NULL} \cup ErrMsgs :
        /\ trace' = Append(trace, Step("SetBaseURL", err))
        /\ IF err # NULL
           THEN /\ Fail("Unable to set looker API endpoint", "Err: " \o err)
                /\ UNCHANGED client
           ELSE /\ client' = [client EXCEPT !.BaseURL = d.base_url]
                /\ pc' = "SetOauthCredentials"
                /\ UNCHANGED <<diags, ret>>
    /\ UNCHANGED <<d, version, userAgent, session, config, log, stdout>>
    /\ UNCHANGED msVars

SetOauthCredentials ==
    /\ pc = "SetOauthCredentials"
    /\ \E err \in {NULL} \cup ErrMsgs :
        /\ trace' = Append(trace, Step("SetOauthCredentials", err))
        /\ IF err # NULL
           THEN /\ Fail("Unable to set looker API client_id/client_secret", "Err: " \o err)
                /\ UNCHANGED client
           ELSE /\ client' = [client EXCEPT !.ClientId = d.client_id, !.ClientSecret = d.client_secret]
                /\ pc' = "SetUserAgent"
                /\ UNCHANGED <<diags, ret>>
    /\ UNCHANGED <<d, version, userAgent, session, config, log, stdout>>
    /\ UNCHANGED msVars

SetUserAgent ==
    /\ pc = "SetUserAgent"
    /\ \E err \in {NULL} \cup ErrMsgs :
        /\ trace' = Append(trace, Step("SetUserAgent", err))
        /\ IF err # NULL
           THEN /\ Fail("Unable to set looker API user-agent", "Err: " \o err)
                /\ UNCHANGED client
           ELSE /\ client' = [client EXCEPT !.UserAgent = userAgent]
                /\ pc' = "SessionsGet"
                /\ UNCHANGED <<diags, ret>>
    /\ UNCHANGED <<d, version, userAgent, session, config, log, stdout>>
    /\ UNCHANGED msVars

\* SessionsGet that drops the error of client.Sessions.Get and goes on
SessionsGetSwallow ==
    /\ pc = "SessionsGet"
    /\ \E err \in {NULL} \cup ErrMsgs, w \in WorkspaceIds :
        /\ trace' = Append(trace, Step("Sessions.Get", err))
        /\ session' = [WorkspaceId |-> w]
        /\ pc' = "CheckWorkspace"
        /\ UNCHANGED <<diags, ret>>
    /\ UNCHANGED <<d, version, userAgent, client, config, log, stdout>>
    /\ UNCHANGED msVars

SessionsGet ==
    /\ pc = "SessionsGet"
    /\ \E err \in {NULL} \cup ErrMsgs, w \in WorkspaceIds :
        /\ trace' = Append(trace, Step("Sessions.Get", err))
        /\ IF err # NULL
           THEN /\ Fail("Unable to create Looker client",
                        "Unable to authenticate user for authenticated Looker client: " \o err)
                /\ UNCHANGED session
           ELSE /\ session' = [WorkspaceId |-> w]
                /\ pc' = "CheckWorkspace"
                /\ UNCHANGED <<diags, ret>>
    /\ UNCHANGED <<d, version, userAgent, client, config, log, stdout>>
    /\ UNCHANGED msVars

\* CheckWorkspace with a default case that falls back to production
CheckWorkspaceDefault ==
    /\ pc = "CheckWorkspace"
    /\ trace' = Append(trace, [step |-> "workspace check", ok |-> TRUE])
    /\ config' = Config(PrimaryClient,
                        IF session.WorkspaceId = "dev" THEN WorkspaceDev ELSE WorkspaceProduction)
    /\ pc' = "CreateDevConnection"
    /\ UNCHANGED <<d, version, userAgent, client, session, diags, ret, log, stdout>>
    /\ UNCHANGED msVars

\* CheckWorkspace with the two workspaces of the switch exchanged
CheckWorkspaceSwapped ==
    /\ pc = "CheckWorkspace"
    /\ trace' = Append(trace, [step |-> "workspace check",
                               ok |-> session.WorkspaceId \in {"production", "dev"}])
    /\ IF session.WorkspaceId \in {"production", "dev"}
       THEN /\ config' = Config(PrimaryClient,
                                IF session.WorkspaceId = "dev" THEN WorkspaceProduction ELSE WorkspaceDev)
            /\ pc' = "CreateDevConnection"
            /\ UNCHANGED <<diags, ret>>
       ELSE /\ Fail("Session Workspace ID is nome of production/dev",
                    "Unable to find workspace ID in /session call")
            /\ UNCHANGED config
    /\ UNCHANGED <<d, version, userAgent, client, session, log, stdout>>
    /\ UNCHANGED msVars

\* lines 147-161: the switch on session.WorkspaceId
CheckWorkspace ==
    /\ pc = "CheckWorkspace"
    /\ trace' = Append(trace, [step |-> "workspace check",
                               ok |-> session.WorkspaceId \in {"production", "dev"}])
    /\ IF session.WorkspaceId = "production"
       THEN /\ config' = Config(PrimaryClient, WorkspaceProduction)
            /\ pc' = "CreateDevConnection"
            /\ UNCHANGED <<diags, ret>>
       ELSE IF session.WorkspaceId = "dev"
       THEN /\ config' = Config(PrimaryClient, WorkspaceDev)
            /\ pc' = "CreateDevConnection"
            /\ UNCHANGED <<diags, ret>>
       ELSE /\ Fail("Session Workspace ID is nome of production/dev",
                    "Unable to find workspace ID in /session call")
            /\ UNCHANGED config
    /\ UNCHANGED <<d, version, userAgent, client, session, log, stdout>>
    /\ UNCHANGED msVars

\* CreateDevConnection that reports the failure and still returns &config
CreateDevConnectionKeeps ==
    /\ pc = "CreateDevConnection"
    /\ \E err \in {NULL} \cup ErrMsgs, devClient \in DevClients, devSession \in DevSessions :
        /\ trace' = Append(trace, Step("CreateDevConnection", err))
        /\ IF err # NULL
           THEN /\ diags' = Append(diags, Diagnostic("Unable to create Looker client",
                        "Unable to authenticate user for authenticated Looker client: " \o err))
                /\ ret' = [returned |-> TRUE, isNil |-> FALSE, config |-> config,
                           diags |-> Append(diags, Diagnostic("Unable to create Looker client",
                              "Unable to authenticate user for authenticated Looker client: " \o err))]
                /\ pc' = "done"
                /\ UNCHANGED stdout
           ELSE /\ stdout' = Append(stdout, [dc |-> devClient, ds |-> devSession])
                /\ ret' = ReturnConfig(config)
                /\ pc' = "done"
                /\ UNCHANGED diags
    /\ UNCHANGED <<d, version, userAgent, client, session, config, log>>
    /\ UNCHANGED msVars

\* CreateDevConnection that hands out the dev client in the Config
CreateDevConnectionStores ==
    /\ pc = "CreateDevConnection"
    /\ \E err \in {NULL} \cup ErrMsgs, devClient \in DevClients, devSession \in DevSessions :
        /\ trace' = Append(trace, Step("CreateDevConnection", err))
        /\ IF err # NULL
           THEN /\ Fail("Unable to create Looker client",
                        "Unable to authenticate user for authenticated Looker client: " \o err)
                /\ UNCHANGED <<stdout, config>>
           ELSE /\ stdout' = Append(stdout, [dc |-> devClient, ds |-> devSession])
                /\ config' = Config(devClient, WorkspaceDev)
                /\ ret' = ReturnConfig(Config(devClient, WorkspaceDev))
                /\ pc' = "done"
                /\ UNCHANGED diags
    /\ UNCHANGED <<d, version, userAgent, client, session, log>>
    /\ UNCHANGED msVars

\* lines 163-175: the dev connection, the print of its results, the return
CreateDevConnection ==
    /\ pc = "CreateDevConnection"
    /\ \E err \in {NULL} \cup ErrMsgs, devClient \in DevClients, devSession \in DevSessions :
        /\ trace' = Append(trace, Step("CreateDevConnection", err))
        /\ IF err # NULL
           THEN /\ Fail("Unable to create Looker client",
                        "Unable to authenticate user for authenticated Looker client: " \o err)
                /\ UNCHANGED stdout
           ELSE /\ stdout' = Append(stdout, [dc |-> devClient, ds |-> devSession])
                /\ ret' = ReturnConfig(config)
                /\ pc' = "done"
                /\ UNCHANGED diags
    /\ UNCHANGED <<d, version, userAgent, client, session, config, log>>
    /\ UNCHANGED msVars

Next ==
    \/ Start
    \/ SetBaseURL
    \/ SetOauthCredentials
    \/ SetUserAgent
    \/ SessionsGet
    \/ CheckWorkspace
    \/ CreateDevConnection

Spec == Init /\ [][Next]_vars

\* ---------------------------------------------------------------- ModelSetsResourceOp
ModelSet == {[Id |-> ToString(i), Name |-> "set" \o ToString(i)] : i \in 1..NumModelSets}
ModelSetIds == {m.Id : m \in ModelSet}
Responses == {NULL, "200", "500"}

\* everything doList can hand back: the decoded entities, the response, the error
DoListResults ==
    [entities : UNION {[1..n -> ModelSet] : n \in 0..MaxLen},
     resp : Responses,
     err : {NULL} \cup ErrMsgs]

Returned(entities, resp, err) ==
    [kind |-> "return", entities |-> entities, resp |-> resp, err |-> err, value |-> NULL]
Panicked(v) ==
    [kind |-> "panic", entities |-> <<>>, resp |-> NULL, err |-> NULL, value |-> v]

Alive == msRet.kind # "panic"

InitModelSets ==
    /\ pc = "start"
    /\ d = [base_url |-> "https://looker.example/api/", client_id |-> "id1", client_secret |-> "secret1"]
    /\ version = "dev"
    /\ userAgent = NULL
    /\ client = NULL
    /\ session = NoSession
    /\ config = ZeroConfig
    /\ diags = <<>>
    /\ ret = NoReturn
    /\ log = <<>>
    /\ stdout = <<>>
    /\ trace = <<>>
    /\ msCall = NoCall
    /\ msCalls = <<>>
    /\ doListOut = NULL
    /\ msRet = NoOutcome

RECURSIVE Dedup(_)
Dedup(es) ==
    IF es = <<>> THEN <<>>
    ELSE LET front == Dedup(SubSeq(es, 1, Len(es) - 1))
             last == es[Len(es)]
         IN IF \E i \in 1..Len(front) : front[i] = last THEN front ELSE Append(front, last)

\* List that drops repeated entities from what doList returned
ListDedup ==
    /\ Alive
    /\ \E r \in DoListResults :
        /\ msCall' = [op |-> "List", id |-> NULL, modelSet |-> NULL]
        /\ msCalls' = <<[fn |-> "doList", path |-> modelSetsBasePath, params |-> NULL]>>
        /\ doListOut' = r
        /\ msRet' = Returned(Dedup(r.entities), r.resp, r.err)
    /\ UNCHANGED cfgVars

List ==
    /\ Alive
    /\ \E r \in DoListResults :
        /\ msCall' = [op |-> "List", id |-> NULL, modelSet |-> NULL]
        /\ msCalls' = <<[fn |-> "doList", path |-> modelSetsBasePath, params |-> NULL]>>
        /\ doListOut' = r
        /\ msRet' = Returned(r.entities, r.resp, r.err)
    /\ UNCHANGED cfgVars

Get ==
    /\ Alive
    /\ \E modelSetId \in ModelSetIds :
        msCall' = [op |-> "Get", id |-> modelSetId, modelSet |-> NULL]
    /\ msCalls' = <<>>
    /\ doListOut' = NULL
    /\ msRet' = Panicked("implement me")
    /\ UNCHANGED cfgVars

Create ==
    /\ Alive
    /\ \E modelSet \in ModelSet :
        msCall' = [op |-> "Create", id |-> NULL, modelSet |-> modelSet]
    /\ msCalls' = <<>>
    /\ doListOut' = NULL
    /\ msRet' = Panicked("implement me")
    /\ UNCHANGED cfgVars

Update ==
    /\ Alive
    /\ \E modelSetId \in ModelSetIds, modelSet \in ModelSet :
        msCall' = [op |-> "Update", id |-> modelSetId, modelSet |-> modelSet]
    /\ msCalls' = <<>>
    /\ doListOut' = NULL
    /\ msRet' = Panicked("implement me")
    /\ UNCHANGED cfgVars

Delete ==
    /\ Alive
    /\ \E modelSetId \in ModelSetIds :
        msCall' = [op |-> "Delete", id |-> modelSetId, modelSet |-> NULL]
    /\ msCalls' = <<>>
    /\ doListOut' = NULL
    /\ msRet' = Panicked("implement me")
    /\ UNCHANGED cfgVars

NextModelSets ==
    \/ List
    \/ Get
    \/ Create
    \/ Update
    \/ Delete

SpecModelSets == InitModelSets /\ [][NextModelSets]_vars

\* ---------------------------------------------------------------- properties

RecognizedWorkspaceIds == {"production", "dev"}
TransportSteps == {"SetBaseURL", "SetUserAgent"}

\* the steps that put a request on the wire: the credential exchange of
\* Authenticate, the session fetch, the dev connection
IssuesRequest(step) == step \in {"SetOauthCredentials", "Sessions.Get", "CreateDevConnection"}

StepOrder == <<"SetBaseURL", "SetOauthCredentials", "SetUserAgent", "Sessions.Get",
               "workspace check", "CreateDevConnection">>

Credentials == {d.client_id, d.client_secret}

\* C1: Get, Create, Update and Delete of the model-set resource return an
\* Unimplemented error to the caller; they never panic and never do nothing.
C1_UnimplementedReturned ==
    msCall.op \in {"Get", "Create", "Update", "Delete"} =>
        /\ msRet.kind = "return"
        /\ msRet.err = "Unimplemented"

\* C2: a fetched session whose workspace id is neither "production" nor "dev"
\* (the empty string included) makes configuration fail: an Error diagnostic,
\* no Config, no default workspace.
C2_UnknownWorkspaceFails ==
    (session # NoSession /\ session.WorkspaceId \notin RecognizedWorkspaceIds) =>
        /\ pc \in {"CheckWorkspace", "done"}
        /\ ret.isNil
        /\ pc = "done" =>
            /\ ret.returned
            /\ Len(ret.diags) >= 1
            /\ \A i \in 1..Len(ret.diags) : ret.diags[i].Severity = "Error"

C2_Witness ==
    /\ pc = "done"
    /\ session.WorkspaceId = ""
    /\ ret.returned
    /\ trace[Len(trace)].step = "workspace check"

\* C3: when the primary session was fetched with a recognized workspace and
\* CreateDevConnection then fails, the caller still obtains the primary
\* configuration.
C3_DevFailureKeepsPrimary ==
    (/\ pc = "done"
     /\ trace[Len(trace)].step = "CreateDevConnection"
     /\ ~trace[Len(trace)].ok) =>
        /\ ~ret.isNil
        /\ ret.config = config
        /\ ret.config.Api = PrimaryClient

\* C4: neither credential value is ever written to the log, to standard
\* output or into a diagnostic.
C4_CredentialsNeverObservable ==
    /\ \A i \in 1..Len(log) : \A kv \in log[i].fields : kv[2] \notin Credentials
    /\ \A i \in 1..Len(stdout) : stdout[i].dc \notin Credentials
    /\ \A i \in 1..Len(diags) : \A c \in Credentials :
          /\ diags[i].Summary # c
          /\ diags[i].Detail # "Err: " \o c
          /\ diags[i].Detail # "Unable to authenticate user for authenticated Looker client: " \o c

\* C5: List makes exactly one call to doList, on "4.0/model_sets" with no
\* parameters, and returns its entities, response and error unchanged; an
\* empty result is an empty sequence and no error.
C5_ListDelegates ==
    msCall.op = "List" =>
        /\ msCalls = <<[fn |-> "doList", path |-> "4.0/model_sets", params |-> NULL]>>
        /\ msRet.kind = "return"
        /\ msRet.entities = doListOut.entities
        /\ msRet.resp = doListOut.resp
        /\ msRet.err = doListOut.err

C5_Witness ==
    /\ msCall.op = "List"
    /\ Len(doListOut.entities) = 2
    /\ doListOut.entities[1] = doListOut.entities[2]
    /\ msRet.err = NULL

\* C6: base URL and user agent are both applied before the credential
\* exchange starts, the exchange happens before the session fetch, each
\* transport setting is written once and never after a request-issuing step.
C6_TransportBeforeExchange ==
    /\ \A i \in 1..Len(trace) : trace[i].step = "SetOauthCredentials" =>
          \A t \in TransportSteps : \E j \in 1..(i - 1) : trace[j].step = t /\ trace[j].ok
    /\ \A i \in 1..Len(trace) : trace[i].step = "Sessions.Get" =>
          \E j \in 1..(i - 1) : trace[j].step = "SetOauthCredentials"
    /\ \A t \in TransportSteps : Cardinality({i \in 1..Len(trace) : trace[i].step = t}) <= 1
    /\ \A i \in 1..Len(trace) : IssuesRequest(trace[i].step) =>
          \A j \in (i + 1)..Len(trace) : trace[j].step \notin TransportSteps

\* C7: each step is attempted at most once, in order, and after a failed step
\* no later step is attempted.
C7_FailFastNoRetry ==
    /\ Len(trace) <= Len(StepOrder)
    /\ \A i \in 1..Len(trace) : trace[i].step = StepOrder[i]
    /\ \A i \in 1..Len(trace) : ~trace[i].ok => (i = Len(trace) /\ pc = "done")

C7_Witness ==
    /\ pc = "done"
    /\ Len(trace) = 4
    /\ trace[4].step = "Sessions.Get"
    /\ ~trace[4].ok

\* C8: a Config is returned exactly when no diagnostic is; a failed step gives
\* a nil Config and exactly one diagnostic, of severity Error.
C8_ConfigIffNoDiags ==
    ret.returned =>
        /\ ~ret.isNil <=> Len(ret.diags) = 0
        /\ (\E i \in 1..Len(trace) : ~trace[i].ok) =>
              /\ ret.isNil
              /\ Len(ret.diags) = 1
              /\ ret.diags[1].Severity = "Error"
        /\ ~ret.isNil =>
              /\ \A i \in 1..Len(trace) : trace[i].ok
              /\ session.WorkspaceId \in RecognizedWorkspaceIds

C8_Witness ==
    /\ ret.returned
    /\ trace[Len(trace)].step = "CreateDevConnection"
    /\ ~trace[Len(trace)].ok
    /\ ret.isNil

\* C9: on success Config.Workspace is WorkspaceProduction exactly for session
\* workspace "production", WorkspaceDev exactly for "dev", and Config.Api is
\* the primary client carrying the base URL, credentials and user agent.
C9_WorkspaceMapping ==
    (ret.returned /\ ~ret.isNil) =>
        /\ ret.config.Workspace = WorkspaceProduction <=> session.WorkspaceId = "production"
        /\ ret.config.Workspace = WorkspaceDev <=> session.WorkspaceId = "dev"
        /\ ret.config.Api = PrimaryClient
        /\ client.BaseURL = d.base_url
        /\ client.ClientId = d.client_id
        /\ client.ClientSecret = d.client_secret
        /\ client.UserAgent = "terraform-provider-looker/" \o version

C9_Witness ==
    /\ ret.returned
    /\ ~ret.isNil
    /\ session.WorkspaceId = "dev"
    /\ ret.config.Workspace = WorkspaceDev

\* C10: a successful CreateDevConnection leaves the configuration as it was
\* determined from the primary session; the dev client and dev session are
\* not stored in the Config.
C10_DevConnectionFrame ==
    [][(pc = "CreateDevConnection" /\ ret'.returned /\ ~ret'.isNil) =>
          /\ config' = config
          /\ ret'.config = config
          /\ ret'.config.Api \notin DevClients
          /\ client' = client
          /\ session' = session]_vars

C10_Witness ==
    /\ ret.returned
    /\ ~ret.isNil
    /\ Len(stdout) = 1
    /\ stdout[1].ds.WorkspaceId = "production"
    /\ ret.config.Workspace = WorkspaceDev
    /\ ret.config.Api = PrimaryClient

====
